---- MODULE Spec2Model ----
(***************************************************************************)
(* Model of main.py of rssfeed-scanner: the workflow that resolves a       *)
(* disease label against the NIH MeSH service, classifies the descriptor   *)
(* and aggregates RSS feed activity with a pre-emptible iterator.          *)
(*                                                                         *)
(* Text is modelled as sequences of one-character strings so that the two  *)
(* regular expressions are computed, not assumed.  A Python dict is a      *)
(* function; the empty dict {} is the empty function << >>.  The outcome   *)
(* of requests.get is either None (a transport exception was caught) or a  *)
(* response record.  A Python exception that is not caught is modelled by  *)
(* the "raised" field of a function's outcome and ends the run.            *)
(***************************************************************************)
EXTENDS Integers, Sequences, FiniteSets, TLC

\* ---------------------------------------------------------------- bounds
MaxUnits == 2       \* work units in one batch
MaxFeeds == 2       \* feed URLs configured for one work unit
MaxItems == 5       \* channel items in one feed response
MaxResults == 2     \* entries in one descriptor lookup response
MaxTreeNums == 2    \* tree-number URIs in one SPARQL response

\* ------------------------------------------------------------- constants
StatusOk == 200          \* requests.codes.ok
StatusNoContent == 204   \* a success status other than 200
StatusNotFound == 404    \* an error status; such a response is falsy
FirstErrorStatus == 400  \* bool(response) is response.ok: status < 400

\* ------------------------------------------------------------------ text
Digits == {"0", "1", "2", "3", "4", "5", "6", "7", "8", "9"}

\* The literal part shared by both regular expressions.  An unescaped "."
\* of the pattern matches any character.
MeshPrefixPattern ==
    << "h","t","t","p",":","/","/","i","d",".","n","l","m",".","n","i","h",
       ".","g","o","v","/","m","e","s","h","/" >>

Max(S) == CHOOSE m \in S : \A n \in S : n <= m
Min(S) == CHOOSE m \in S : \A n \in S : m <= n

\* The pattern pat matches s at position i.
MatchesAt(s, i, pat) ==
    /\ i + Len(pat) - 1 <= Len(s)
    /\ \A k \in 1..Len(pat) : pat[k] = "." \/ s[i + k - 1] = pat[k]

\* Last index of the greedy run \d+ that starts at j.
DigitRunEnd(s, j) ==
    Max({e \in j..Len(s) : \A k \in j..e : s[k] \in Digits})

\* Last index of the greedy run [^.]+ that starts at j.
NonDotRunEnd(s, j) ==
    Max({e \in j..Len(s) : \A k \in j..e : s[k] # "."})

\* Descriptor_id_regex.search(s): leftmost match of prefix(\D\d+).
Descriptor_id_regex(s) ==
    LET n == Len(MeshPrefixPattern)
        starts == {i \in 1..Len(s) :
                      /\ MatchesAt(s, i, MeshPrefixPattern)
                      /\ i + n + 1 <= Len(s)
                      /\ s[i + n] \notin Digits
                      /\ s[i + n + 1] \in Digits}
    IN  IF starts = {} THEN [matched |-> FALSE, group1 |-> << >>]
        ELSE LET i == Min(starts)
             IN  [matched |-> TRUE,
                  group1 |-> SubSeq(s, i + n, DigitRunEnd(s, i + n + 1))]

\* Base_tree_regex.search(s): leftmost match of prefix([^.]+).
Base_tree_regex(s) ==
    LET n == Len(MeshPrefixPattern)
        starts == {i \in 1..Len(s) :
                      /\ MatchesAt(s, i, MeshPrefixPattern)
                      /\ i + n <= Len(s)
                      /\ s[i + n] # "."}
    IN  IF starts = {} THEN [matched |-> FALSE, group1 |-> << >>]
        ELSE LET i == Min(starts)
             IN  [matched |-> TRUE,
                  group1 |-> SubSeq(s, i + n, NonDotRunEnd(s, i + n))]

\* str.startswith for a one-character prefix.
StartsWith(s, c) == Len(s) >= 1 /\ s[1] = c

\* ------------------------------------------------------------- responses
\* requests.get raised and the except clause left response = None.
None == << >>

\* "if response and response.status_code == requests.codes.ok"
ResponseIsOk(response) ==
    /\ response # None
    /\ response.status_code < FirstErrorStatus
    /\ response.status_code = StatusOk

MeshBase ==
    << "h","t","t","p",":","/","/","i","d",".","n","l","m",".","n","i","h",
       ".","g","o","v","/","m","e","s","h","/" >>

\* ------------------------------------------------- fetch_mesh_descriptor
\* The body of a lookup response is JSON text: either it does not parse
\* (response.json() raises) or it is a list of descriptor dicts.
\* Mutant: the last entry of the result set instead of the first.
fetch_mesh_descriptor_LastEntry(response) ==
    IF ResponseIsOk(response)
    THEN IF ~response.body.wellformed
         THEN [raised |-> "JSONDecodeError", result |-> << >>]
         ELSE IF response.body.value # << >>
              THEN [raised |-> "none",
                    result |-> response.body.value[Len(response.body.value)]]
              ELSE [raised |-> "none", result |-> << >>]
    ELSE [raised |-> "none", result |-> << >>]

fetch_mesh_descriptor(response) ==
    IF ResponseIsOk(response)
    THEN IF ~response.body.wellformed
         THEN [raised |-> "JSONDecodeError", result |-> << >>]
         ELSE IF response.body.value # << >>
              THEN [raised |-> "none", result |-> response.body.value[1]]
              ELSE [raised |-> "none", result |-> << >>]
    ELSE [raised |-> "none", result |-> << >>]

\* ------------------------------------------------------- is_mesh_disease
\* The part of is_mesh_disease before the request: the descriptor id.
DescriptorIdMatch(mesh_descriptor) ==
    Descriptor_id_regex(mesh_descriptor.resource)

\* The part of is_mesh_disease after the request.  The body of a SPARQL
\* response is XML text: either ET.fromstring raises or it holds the
\* treeNum uri nodes in document order.
is_mesh_disease(mesh_descriptor, response) ==
    IF ~DescriptorIdMatch(mesh_descriptor).matched
    THEN [raised |-> "none", result |-> FALSE]
    ELSE IF ~ResponseIsOk(response)
    THEN [raised |-> "none", result |-> FALSE]
    ELSE IF ~response.body.wellformed
    THEN [raised |-> "ParseError", result |-> FALSE]
    ELSE LET treenum_uri_nodes == response.body.value
         IN  IF treenum_uri_nodes = << >>
             THEN [raised |-> "none", result |-> FALSE]
             ELSE LET match == Base_tree_regex(treenum_uri_nodes[1])
                  IN  [raised |-> "none",
                       result |-> /\ match.matched
                                  /\ StartsWith(match.group1, "C")]

\* --------------------------------------------------- count_channel_items
ClinicalTrialsUrl == "https://clinicaltrials.gov/ct2/results/rss.xml"
OtherUrl == "https://example.org/feed.xml"

\* The keys of the FeedQueryParams table.
FeedQueryParams == {ClinicalTrialsUrl}

\* The body of a feed response is XML text: either ET.fromstring raises or
\* it holds some number of ./channel/item nodes.
\* Mutant: an unconfigured feed counts as a confirmed zero.
count_channel_items_UnconfiguredCertain(feed_url, response) ==
    IF feed_url \notin FeedQueryParams
    THEN [raised |-> "none", result |-> [count |-> 0, certainty |-> TRUE]]
    ELSE IF ~ResponseIsOk(response)
    THEN [raised |-> "none", result |-> [count |-> 0, certainty |-> FALSE]]
    ELSE IF ~response.body.wellformed
    THEN [raised |-> "ParseError",
          result |-> [count |-> 0, certainty |-> FALSE]]
    ELSE [raised |-> "none",
          result |-> [count |-> response.body.value, certainty |-> TRUE]]

\* Mutant: an unsuccessful query is reported as a certain zero.
count_channel_items_FailureCertain(feed_url, response) ==
    IF feed_url \notin FeedQueryParams
    THEN [raised |-> "none", result |-> [count |-> 0, certainty |-> FALSE]]
    ELSE IF ~ResponseIsOk(response)
    THEN [raised |-> "none", result |-> [count |-> 0, certainty |-> TRUE]]
    ELSE IF ~response.body.wellformed
    THEN [raised |-> "ParseError",
          result |-> [count |-> 0, certainty |-> FALSE]]
    ELSE [raised |-> "none",
          result |-> [count |-> response.body.value, certainty |-> TRUE]]

count_channel_items(feed_url, response) ==
    IF feed_url \notin FeedQueryParams
    THEN [raised |-> "none", result |-> [count |-> 0, certainty |-> FALSE]]
    ELSE IF ~ResponseIsOk(response)
    THEN [raised |-> "none", result |-> [count |-> 0, certainty |-> FALSE]]
    ELSE IF ~response.body.wellformed
    THEN [raised |-> "ParseError",
          result |-> [count |-> 0, certainty |-> FALSE]]
    ELSE [raised |-> "none",
          result |-> [count |-> response.body.value, certainty |-> TRUE]]

\* ------------------------------------------------------------ the fold
\* functools.reduce(function, activity) without an initial value.
\* The lambda folded over the activity list.
\* Mutant: the certainty of the last feed wins.
ReduceStep_LastCertainty(acc, arg) ==
    [count |-> acc.count + arg.count, certainty |-> arg.certainty]

ReduceStep(acc, arg) ==
    [count |-> acc.count + arg.count,
     certainty |-> acc.certainty /\ arg.certainty]

RECURSIVE ReduceFrom(_, _)
ReduceFrom(acc, rest) ==
    IF rest = << >> THEN acc
    ELSE ReduceFrom(ReduceStep(acc, rest[1]), Tail(rest))

reduce(activity) ==
    IF activity = << >>
    THEN [raised |-> "TypeError",
          result |-> [count |-> 0, certainty |-> FALSE]]
    ELSE [raised |-> "none", result |-> ReduceFrom(activity[1], Tail(activity))]

\* ------------------------------------------------------------- the inputs
\* All sequences over S of length at most n.
SeqsUpTo(S, n) == UNION {[1..k -> S] : k \in 0..n}

\* Speculative disease names supplied by the caller.
Labels == {"Crohn's Disease"}

FeedUrls == {ClinicalTrialsUrl, OtherUrl}

\* A work unit is the tuple (disease_name, feed_urls).
WorkUnits ==
    [disease_name : Labels, feed_urls : SeqsUpTo(FeedUrls, MaxFeeds)]

\* The lengths of the work_units list.
BatchSizes == 0..MaxUnits

\* The loop variable before the first iteration.
NoWorkUnit == [disease_name |-> "", feed_urls |-> << >>]

\* Entries the lookup service may return: one whose resource URI carries a
\* descriptor id, one whose resource URI does not.
CrohnDescriptor ==
    [label |-> "Crohn Disease",
     resource |-> MeshBase \o << "D","0","0","3" >>]
OddDescriptor ==
    [label |-> "Crohn Disease",
     resource |-> MeshBase \o << "4","2" >>]
DescriptorEntries == {CrohnDescriptor, OddDescriptor}

\* Tree-number URIs the SPARQL service may return: one under C, one under
\* another root, one that is not a MeSH URI.
TreeNumC == MeshBase \o << "C","0","6",".","4" >>
TreeNumD == MeshBase \o << "D","1","2" >>
TreeNumOdd == << "u","r","n",":","C" >>
TreeNumUris == {TreeNumC, TreeNumD, TreeNumOdd}

\* What requests.get can leave in "response" for a body set Bodies: None
\* after a transport exception, a non-200 response, or a 200 response with
\* a body that parses or does not.
ResponsesWith(Bodies) ==
    {None}
    \cup [status_code : {StatusNoContent, StatusNotFound, StatusOk},
          body : {[wellformed |-> FALSE, value |-> CHOOSE b \in Bodies : TRUE]}]
    \cup [status_code : {StatusOk},
          body : [wellformed : {TRUE}, value : Bodies]]

LookupResponses == ResponsesWith(SeqsUpTo(DescriptorEntries, MaxResults))
SparqlResponses == ResponsesWith(SeqsUpTo(TreeNumUris, MaxTreeNums))
FeedResponses == ResponsesWith(0..MaxItems)

\* ---------------------------------------------------------------- state
VARIABLES
    n_units,          \* len(work_units), the argument of log_disease_inactivity
    pc,               \* position of the single thread of control
    unit,             \* index of the work unit being processed (0: none yet)
    work_unit,        \* loop variable: the work unit being processed
    mesh_descriptor,  \* check_disease_activity: result of the lookup
    is_disease,       \* what is_mesh_disease returned: "unset", "yes", "no"
    disease_name,     \* check_disease_feeds: the working disease name
    inner,            \* FeedsIterator._inner: None or [next, stop]
    feed_url,         \* loop variable of the list comprehension
    activity,         \* the list the comprehension builds
    aggregate,        \* (channel_items_total, is_certain), None before the fold
    response,         \* "response" of the function that ran last
    calls,            \* history: requests issued for the current unit
    queried,          \* history: feed positions passed to count_channel_items
    log,              \* the logging output (outcome lines, tagged by unit)
    raised,           \* the uncaught exception that ended the run, or "none"
    raised_in,        \* the function that raised it, or "none"
    class_stop,       \* the class attribute SmartIterator.__Inner.__stop
    oracle,           \* replay: the response of the feed at each position
    run,              \* replay: which run of check_disease_feeds (0: none)
    first             \* replay: what the first run did, None before it ends

vars == << n_units, pc, unit, work_unit, mesh_descriptor, is_disease, disease_name,
           inner, feed_url, activity, aggregate, response, calls, queried,
           log, raised, raised_in, class_stop, oracle, run, first >>

locals == << mesh_descriptor, is_disease, disease_name, inner, feed_url,
             activity, aggregate, response, calls, queried >>

noraise == << raised, raised_in >>

replay == << oracle, run, first >>

Line(u, level, kind, name) ==
    [unit |-> u, level |-> level, kind |-> kind, name |-> name]

Init ==
    /\ n_units \in BatchSizes
    /\ pc = "begin"
    /\ unit = 0
    /\ work_unit = NoWorkUnit
    /\ mesh_descriptor = << >>
    /\ is_disease = "unset"
    /\ disease_name = ""
    /\ inner = None
    /\ feed_url = ""
    /\ activity = << >>
    /\ aggregate = None
    /\ response = None
    /\ calls = << >>
    /\ queried = << >>
    /\ log = << >>
    /\ raised = "none"
    /\ raised_in = "none"
    /\ class_stop = FALSE
    /\ oracle = << >>
    /\ run = 0
    /\ first = None

\* An exception leaves every frame: the run ends with a traceback.
Raise(exc, fn) ==
    /\ pc' = "raised"
    /\ raised' = exc
    /\ raised_in' = fn

\* log_disease_inactivity, the first logging call.
Begin ==
    /\ pc = "begin"
    /\ log' = Append(log, Line(0, "INFO", "begin", ""))
    /\ pc' = "loop"
    /\ UNCHANGED << n_units, unit, work_unit, locals, noraise, class_stop, replay >>

\* The warning of check_disease_activity and its return.
NotRecognized ==
    /\ log' = Append(log, Line(unit, "WARNING", "notrecognized",
                               work_unit.disease_name))
    /\ pc' = "return"
    /\ UNCHANGED noraise

\* "not bool(mesh_descriptor)": the empty dict is falsy.
NoDescriptor(descriptor) == descriptor = << >>

\* "not is_mesh_disease(mesh_descriptor)": the unit is skipped.
\* Mutant: the classification is ignored.
SkipsUnit_Never(is_disease_result) == FALSE

SkipsUnit(is_disease_result) == ~is_disease_result

\* "mesh_disease_name = mesh_descriptor['label']": the working name.
\* Mutant: the supplied name stays the working name.
WorkingName_Supplied(supplied, descriptor) == supplied

WorkingName(supplied, descriptor) == descriptor.label

\* FeedsIterator(feed_urls) and iter() on it: a new __Inner over a new list
\* iterator; reading its __stop finds the class attribute until stop() has
\* set the instance attribute.
\* Mutant: __iter__ hands out the _inner of the previous traversal.
SmartIteratorIter_Reuses(cls_stop) ==
    IF inner # None THEN inner ELSE [next |-> 1, stop |-> cls_stop]

SmartIteratorIter(cls_stop) == [next |-> 1, stop |-> cls_stop]

\* "self.__stop = True" in stop() binds the instance attribute: the class
\* attribute keeps its value.
\* Mutant: stop() sets the flag on the class.
ClassStopAfter_Shared(cls_stop, channel_items) ==
    cls_stop \/ channel_items.count > 0

ClassStopAfter(cls_stop, channel_items) == cls_stop

\* The for loop takes the next work unit; check_disease_activity unpacks it
\* and calls fetch_mesh_descriptor, which runs to its return statement.
Lookup ==
    /\ pc = "loop"
    /\ unit < n_units
    /\ \E wu \in WorkUnits, r \in LookupResponses :
          LET out == fetch_mesh_descriptor(r)
          IN  /\ unit' = unit + 1
              /\ work_unit' = wu
              /\ response' = r
              /\ calls' = << [service |-> "lookup",
                              param |-> wu.disease_name] >>
              /\ IF out.raised # "none"
                 THEN /\ Raise(out.raised, "fetch_mesh_descriptor")
                      /\ UNCHANGED mesh_descriptor
                 ELSE /\ mesh_descriptor' = out.result
                      /\ pc' = "fetched"
                      /\ UNCHANGED noraise
    /\ UNCHANGED << n_units, is_disease, disease_name, inner, feed_url,
                    activity, aggregate, queried, log, class_stop, replay >>

\* check_disease_activity tests "not bool(mesh_descriptor)" and, with a
\* descriptor, calls is_mesh_disease, which runs to its return statement.
\* The request is issued only when the resource URI carries a descriptor id.
Classify ==
    /\ pc = "fetched"
    /\ IF NoDescriptor(mesh_descriptor)
       THEN /\ NotRecognized
            /\ UNCHANGED << is_disease, response, calls >>
       ELSE LET idm == DescriptorIdMatch(mesh_descriptor)
            IN  \E r \in (IF idm.matched THEN SparqlResponses ELSE {None}) :
                   LET out == is_mesh_disease(mesh_descriptor, r)
                   IN  /\ response' = r
                       /\ calls' = IF idm.matched
                                   THEN Append(calls,
                                               [service |-> "sparql",
                                                param |-> idm.group1])
                                   ELSE calls
                       /\ UNCHANGED log
                       /\ IF out.raised # "none"
                          THEN /\ Raise(out.raised, "is_mesh_disease")
                               /\ UNCHANGED is_disease
                          ELSE /\ is_disease' = IF out.result THEN "yes"
                                                ELSE "no"
                               /\ pc' = "classified"
                               /\ UNCHANGED noraise
    /\ UNCHANGED << n_units, unit, work_unit, mesh_descriptor, disease_name,
                    inner, feed_url, activity, aggregate, queried,
                    class_stop, replay >>

\* check_disease_activity after is_mesh_disease returned: the warning, or
\* the MeSH label becomes the working name, check_disease_feeds builds the
\* feeder and the comprehension calls iter() on it.
Dispatch ==
    /\ pc = "classified"
    /\ IF SkipsUnit(is_disease = "yes")
       THEN /\ NotRecognized
            /\ UNCHANGED << disease_name, inner, response >>
       ELSE /\ disease_name' = WorkingName(work_unit.disease_name,
                                           mesh_descriptor)
            /\ inner' = SmartIteratorIter(class_stop)
            /\ response' = None
            /\ pc' = "pull"
            /\ UNCHANGED << log, noraise >>
    /\ UNCHANGED << n_units, unit, work_unit, mesh_descriptor, is_disease,
                    feed_url, activity, aggregate, calls, queried,
                    class_stop, replay >>

\* "if self.__stop: raise StopIteration", else the list iterator raises it
\* when it is exhausted.
\* Mutant: the stop flag is not consulted.
StopIteration_IgnoresStop(in, feed_urls) == in.next > Len(feed_urls)

StopIteration(in, feed_urls) == in.stop \/ in.next > Len(feed_urls)

\* The list iterator moves to the next element.
\* Mutant: the list iterator skips an element.
Advance_Skips(in) == [in EXCEPT !.next = @ + 2]

Advance(in) == [in EXCEPT !.next = @ + 1]

\* SmartIterator.__Inner.__next__: StopIteration when stopped or when the
\* underlying list iterator is exhausted, else the next feed URL.
Pull ==
    /\ pc = "pull"
    /\ LET feed_urls == work_unit.feed_urls
       IN  IF StopIteration(inner, feed_urls)
           THEN /\ pc' = "fold"
                /\ UNCHANGED << inner, feed_url >>
           ELSE /\ feed_url' = feed_urls[inner.next]
                /\ inner' = Advance(inner)
                /\ pc' = "query"
    /\ UNCHANGED << n_units, unit, work_unit, mesh_descriptor, is_disease,
                    disease_name, activity, aggregate, response, calls,
                    queried, log, noraise, class_stop, replay >>

\* FeedsIterator.__call__: stop the traversal when the count is positive.
\* Mutant: the traversal is never stopped.
FeedsIteratorCall_NeverStops(in, channel_items) == in

\* Mutant: the traversal is stopped on any count (>= instead of >).
FeedsIteratorCall_AlwaysStops(in, channel_items) ==
    IF channel_items.count >= 0 THEN [in EXCEPT !.stop = TRUE] ELSE in

FeedsIteratorCall(in, channel_items) ==
    IF channel_items.count > 0 THEN [in EXCEPT !.stop = TRUE] ELSE in

\* One element of the comprehension for the response r: count_channel_items,
\* then the feeder call, then the append.
QueryWith(r) ==
    LET out == count_channel_items(feed_url, r)
    IN  /\ response' = r
        /\ calls' = IF feed_url \in FeedQueryParams
                    THEN Append(calls, [service |-> "feed",
                                        param |-> disease_name,
                                        url |-> feed_url])
                    ELSE calls
        /\ queried' = Append(queried, inner.next - 1)
        /\ IF out.raised # "none"
           THEN /\ Raise(out.raised, "count_channel_items")
                /\ UNCHANGED << inner, activity, class_stop >>
           ELSE /\ inner' = FeedsIteratorCall(inner, out.result)
                /\ class_stop' = ClassStopAfter(class_stop, out.result)
                /\ activity' = Append(activity, out.result)
                /\ pc' = "pull"
                /\ UNCHANGED noraise
        /\ UNCHANGED << n_units, unit, work_unit, mesh_descriptor,
                        is_disease, disease_name, feed_url, aggregate, log,
                        replay >>

\* One element of the comprehension; the feed service answers anything.  No
\* request is issued for an unconfigured feed URL.
Query ==
    /\ pc = "query"
    /\ \E r \in (IF feed_url \in FeedQueryParams THEN FeedResponses
                 ELSE {None}) : QueryWith(r)

\* The lines check_disease_feeds logs for a total.
\* Mutant: the certainty flag is not consulted.
InactivityLines_IgnoresCertainty(u, name, total) ==
    IF total.count = 0 THEN << Line(u, "INFO", "inactive", name) >> ELSE << >>

InactivityLines(u, name, total) ==
    IF total.count = 0
    THEN IF total.certainty
         THEN << Line(u, "INFO", "inactive", name) >>
         ELSE << Line(u, "INFO", "indeterminate", name) >>
    ELSE << >>

\* check_disease_feeds after the comprehension: the reduce and the report.
Fold ==
    /\ pc = "fold"
    /\ LET out == reduce(activity)
       IN  IF out.raised # "none"
           THEN /\ Raise(out.raised, "check_disease_feeds")
                /\ UNCHANGED << aggregate, log >>
           ELSE /\ aggregate' = out.result
                /\ log' = log \o InactivityLines(unit, disease_name, out.result)
                /\ pc' = "return"
                /\ UNCHANGED noraise
    /\ UNCHANGED << n_units, unit, work_unit, mesh_descriptor, is_disease,
                    disease_name, inner, feed_url, activity, response, calls,
                    queried, class_stop, replay >>

\* check_disease_activity returns: its locals and those of its callees die.
Return ==
    /\ pc = "return"
    /\ mesh_descriptor' = << >>
    /\ is_disease' = "unset"
    /\ disease_name' = ""
    /\ inner' = None
    /\ feed_url' = ""
    /\ activity' = << >>
    /\ aggregate' = None
    /\ response' = None
    /\ calls' = << >>
    /\ queried' = << >>
    /\ pc' = "loop"
    /\ UNCHANGED << n_units, unit, work_unit, log, noraise, class_stop,
                    replay >>

\* log_disease_inactivity after the loop, the last logging call.
End ==
    /\ pc = "loop"
    /\ unit = n_units
    /\ log' = Append(log, Line(0, "INFO", "end", ""))
    /\ pc' = "done"
    /\ UNCHANGED << n_units, unit, work_unit, locals, noraise, class_stop, replay >>

Next ==
    \/ Begin
    \/ Lookup
    \/ Classify
    \/ Dispatch
    \/ Pull
    \/ Query
    \/ Fold
    \/ Return
    \/ End

Spec == Init /\ [][Next]_vars

\* ------------------------------------------------------------------------
\* check_disease_feeds called twice in sequence on the same arguments while
\* every feed answers the same way both times.

\* One response per feed position; no request reaches an unconfigured feed.
OraclesFor(feed_urls) ==
    {o \in [1..Len(feed_urls) -> FeedResponses] :
        \A k \in 1..Len(feed_urls) :
           feed_urls[k] \notin FeedQueryParams => o[k] = None}

\* The first call of check_disease_feeds has built its feeder and called
\* iter() on it.
InitReplay ==
    /\ n_units = 1
    /\ pc = "pull"
    /\ unit = 1
    /\ work_unit \in WorkUnits
    /\ mesh_descriptor = CrohnDescriptor
    /\ is_disease = "yes"
    /\ disease_name = WorkingName(work_unit.disease_name, CrohnDescriptor)
    /\ class_stop = FALSE
    /\ inner = [next |-> 1, stop |-> FALSE]
    /\ feed_url = ""
    /\ activity = << >>
    /\ aggregate = None
    /\ response = None
    /\ calls = << >>
    /\ queried = << >>
    /\ log = << >>
    /\ raised = "none"
    /\ raised_in = "none"
    /\ oracle \in OraclesFor(work_unit.feed_urls)
    /\ run = 1
    /\ first = None

\* One element of the comprehension; the feed answers as the oracle says.
QueryReplay ==
    /\ pc = "query"
    /\ run >= 1
    /\ QueryWith(oracle[inner.next - 1])

\* What a run of check_disease_feeds did: the positions it queried, the
\* requests it issued, its total and the lines it logged.
RunRecord(u) ==
    [queried |-> queried,
     calls |-> calls,
     aggregate |-> aggregate,
     lines |-> [i \in 1..Len(SelectSeq(log, LAMBDA l : l.unit = u)) |->
                  [kind |-> SelectSeq(log, LAMBDA l : l.unit = u)[i].kind,
                   name |-> SelectSeq(log, LAMBDA l : l.unit = u)[i].name]]]

\* The first call returned; check_disease_feeds is called again with the
\* same arguments: a new feeder, a new comprehension.
Again ==
    /\ pc = "return"
    /\ run = 1
    /\ first' = RunRecord(unit)
    /\ run' = 2
    /\ unit' = 2
    /\ inner' = SmartIteratorIter(class_stop)
    /\ feed_url' = ""
    /\ activity' = << >>
    /\ aggregate' = None
    /\ response' = None
    /\ calls' = << >>
    /\ queried' = << >>
    /\ pc' = "pull"
    /\ UNCHANGED << n_units, work_unit, mesh_descriptor, is_disease,
                    disease_name, log, noraise, class_stop, oracle >>

NextReplay ==
    \/ Pull
    \/ QueryReplay
    \/ Fold
    \/ Again

SpecReplay == InitReplay /\ [][NextReplay]_vars

TypeOK ==
    /\ pc \in {"begin", "loop", "fetched", "classified", "pull", "query",
               "fold", "return", "done", "raised"}
    /\ unit \in 0..(n_units + run)
    /\ work_unit \in WorkUnits \cup {NoWorkUnit}
    /\ raised \in {"none", "JSONDecodeError", "ParseError", "TypeError"}
    /\ (pc = "raised") = (raised # "none")
    /\ (pc = "raised") = (raised_in # "none")
    /\ is_disease \in {"unset", "yes", "no"}
    /\ class_stop \in BOOLEAN
    /\ run \in 0..2

\* ---------------------------------------------------------- vocabulary
Last(s) == s[Len(s)]

\* The feed list of the work unit being processed.
CurrentFeeds == work_unit.feed_urls

\* The feed requests issued for the current unit.
FeedCalls == SelectSeq(calls, LAMBDA c : c.service = "feed")
SparqlCalls == SelectSeq(calls, LAMBDA c : c.service = "sparql")
LookupCalls == SelectSeq(calls, LAMBDA c : c.service = "lookup")

\* The outcome lines logged for unit u.
UnitLines(u) == SelectSeq(log, LAMBDA l : l.unit = u)

\* A feed of the current unit is being or has been aggregated.
Aggregating == inner # None

RECURSIVE SumCounts(_, _)
SumCounts(results, n) ==
    IF n = 0 THEN 0 ELSE SumCounts(results, n - 1) + results[n].count

Identity(n) == [k \in 1..n |-> k]

Zero(certain) == [count |-> 0, certainty |-> certain]

\* ------------------------------------------------------------------- C1
\* C1: once count_channel_items has returned a positive count for the feed
\* at position i, no feed at a later position is queried: the positive
\* result is the last one of the activity list, the queried positions are
\* exactly 1..i, control never reaches another query, and when that feed is
\* the first one the folded result is its own result, e.g. (5, true).
C1_ShortCircuit ==
    /\ queried = Identity(Len(queried))
    /\ \A k \in 1..Len(activity) :
          activity[k].count > 0 =>
             /\ k = Len(activity)
             /\ Len(queried) = k
             /\ pc # "query"
    /\ (aggregate # None /\ activity[1].count > 0) => aggregate = activity[1]

C1_Witness ==
    /\ pc = "return"
    /\ Len(CurrentFeeds) = 2
    /\ activity = << [count |-> 5, certainty |-> TRUE] >>
    /\ queried = << 1 >>
    /\ aggregate = [count |-> 5, certainty |-> TRUE]

\* ------------------------------------------------------------------- C2
\* C2: the aggregate of a non-empty feed sequence has the sum of the counts
\* of exactly the queried feeds and the conjunction of their certainty
\* flags.
C2_AggregateIsFold ==
    aggregate # None =>
       /\ Len(activity) >= 1
       /\ Len(activity) = Len(queried)
       /\ aggregate.count = SumCounts(activity, Len(activity))
       /\ aggregate.certainty = (\A k \in 1..Len(activity) : activity[k].certainty)

C2_Witness ==
    /\ activity = << Zero(FALSE), Zero(TRUE) >>
    /\ aggregate = Zero(FALSE)

\* ------------------------------------------------------------------- C3
\* C3: a unit whose lookup returned no descriptor or whose descriptor
\* is_mesh_disease rejected is reported as not recognized under the
\* supplied name, no feed is queried for a unit not classified as a
\* disease, and without a descriptor no tree-number query is issued.
C3_NotRecognizedSkips ==
    /\ is_disease # "yes" =>
          /\ ~Aggregating
          /\ queried = << >>
          /\ FeedCalls = << >>
    /\ (pc = "return" /\ (mesh_descriptor = << >> \/ is_disease = "no")) =>
          UnitLines(unit) = << Line(unit, "WARNING", "notrecognized",
                                    work_unit.disease_name) >>
    /\ mesh_descriptor = << >> => SparqlCalls = << >>

C3_Witness ==
    /\ pc = "return"
    /\ is_disease = "no"
    /\ Len(SparqlCalls) = 1
    /\ CurrentFeeds # << >>
    /\ Last(log).kind = "notrecognized"

\* ------------------------------------------------------------------- C4
\* The response of the feed request count_channel_items made last parsed.
FeedBodyParsed == ResponseIsOk(response) /\ response.body.wellformed

\* count_channel_items has just run on a configured feed.
JustCounted ==
    /\ queried # << >>
    /\ feed_url \in FeedQueryParams
    /\ \/ pc = "pull"
       \/ pc = "raised" /\ raised_in = "count_channel_items"

\* C4: count_channel_items does not raise; it returns (0, false) when the
\* request failed, had a non-success status or an unparseable body, and
\* (number of items, true) only when the request succeeded and parsed.
C4_FailuresAreUncertain ==
    JustCounted =>
       /\ raised = "none"
       /\ Last(activity) = IF FeedBodyParsed
                           THEN [count |-> response.body.value,
                                 certainty |-> TRUE]
                           ELSE Zero(FALSE)

\* ------------------------------------------------------------------- C5
\* C5: no failure of a lookup, tree-number or feed call propagates as an
\* error: the run never ends in an uncaught exception and ends with the
\* 'End checking' line after the last work unit.
C5_FailuresAbsorbed ==
    /\ pc # "raised"
    /\ pc = "done" => (unit = n_units /\ Last(log).kind = "end")

\* ------------------------------------------------------------------- C6
\* is_mesh_disease has just run.
JustClassified ==
    \/ pc = "classified"
    \/ pc = "raised" /\ raised_in = "is_mesh_disease"

\* The root category letter of a tree-number URI is C.
RootIsC(uri) ==
    LET match == Base_tree_regex(uri)
    IN  match.matched /\ match.group1[1] = "C"

\* C6: is_mesh_disease does not raise and returns true iff the resource URI
\* matches the descriptor-id pattern, the tree-number query succeeds with at
\* least one tree-number URI and the root letter of the first one is C.
C6_FailClosed ==
    JustClassified =>
       /\ raised = "none"
       /\ (is_disease = "yes") <=>
             /\ Descriptor_id_regex(mesh_descriptor.resource).matched
             /\ ResponseIsOk(response)
             /\ response.body.wellformed
             /\ response.body.value # << >>
             /\ RootIsC(response.body.value[1])

\* ------------------------------------------------------------------- C7
OutcomeKinds == {"inactive", "indeterminate", "notrecognized"}

\* C7: for a unit classified as a disease the report follows from the
\* aggregate alone (inactive for (0, true), indeterminate for (0, false),
\* nothing for a positive count), and no unit has two outcome lines.
C7_ReportFromAggregate ==
    /\ \A u \in 1..n_units :
          /\ Len(UnitLines(u)) <= 1
          /\ \A i \in 1..Len(UnitLines(u)) :
                UnitLines(u)[i].kind \in OutcomeKinds
    /\ (pc = "return" /\ is_disease = "yes") =>
          /\ aggregate # None
          /\ (aggregate.count = 0 /\ aggregate.certainty) =>
                UnitLines(unit) = << Line(unit, "INFO", "inactive",
                                          disease_name) >>
          /\ (aggregate.count = 0 /\ ~aggregate.certainty) =>
                UnitLines(unit) = << Line(unit, "INFO", "indeterminate",
                                          disease_name) >>
          /\ aggregate.count > 0 => UnitLines(unit) = << >>

C7_Witness ==
    /\ pc = "return"
    /\ is_disease = "yes"
    /\ aggregate = Zero(FALSE)
    /\ UnitLines(unit) # << >>
    /\ Last(log).kind = "indeterminate"

\* ------------------------------------------------------------------- C8
Unconfigured(url) == url \notin FeedQueryParams

\* count_channel_items issues no request for an unconfigured feed URL and
\* returns (0, false) for it.
UnconfiguredIsUncertain ==
    /\ \A i \in 1..Len(FeedCalls) : ~Unconfigured(FeedCalls[i].url)
    /\ \A k \in 1..Len(activity) :
          Unconfigured(CurrentFeeds[queried[k]]) => activity[k] = Zero(FALSE)
    /\ (Aggregating /\ pc # "raised") =>
          Len(FeedCalls) = Cardinality({k \in 1..Len(queried) :
                                          ~Unconfigured(CurrentFeeds[queried[k]])})

\* C8 as stated: every disease whose configured feed list contains an
\* unconfigured URL has an uncertain aggregate and is reported as
\* indeterminate.
C8_ConfiguredListOriginal ==
    /\ UnconfiguredIsUncertain
    /\ (/\ pc = "return"
        /\ is_disease = "yes"
        /\ \E k \in 1..Len(CurrentFeeds) : Unconfigured(CurrentFeeds[k])) =>
          /\ ~aggregate.certainty
          /\ UnitLines(unit) = << Line(unit, "INFO", "indeterminate",
                                       disease_name) >>

\* C8 amended: every disease for which an unconfigured URL was actually
\* queried has an uncertain aggregate, is never reported inactive, and is
\* reported as indeterminate when the aggregate count is 0.
C8_QueriedUnconfigured ==
    /\ UnconfiguredIsUncertain
    /\ (/\ Aggregating
        /\ \E k \in 1..Len(queried) : Unconfigured(CurrentFeeds[queried[k]])) =>
          /\ \A i \in 1..Len(UnitLines(unit)) :
                UnitLines(unit)[i].kind # "inactive"
          /\ aggregate # None =>
                /\ ~aggregate.certainty
                /\ aggregate.count = 0 =>
                      UnitLines(unit) = << Line(unit, "INFO", "indeterminate",
                                                disease_name) >>

C8_Witness ==
    /\ pc = "return"
    /\ CurrentFeeds = << OtherUrl >>
    /\ queried = << 1 >>
    /\ FeedCalls = << >>
    /\ aggregate = Zero(FALSE)
    /\ Last(log).kind = "indeterminate"

\* ------------------------------------------------------------------- C9
\* fetch_mesh_descriptor has just run.
JustLookedUp ==
    \/ pc = "fetched"
    \/ pc = "raised" /\ raised_in = "fetch_mesh_descriptor"

\* C9: one lookup attempt per unit; the result is the empty descriptor,
\* without an exception, after a transport failure, a non-success response
\* or an empty result set, and the first entry of a non-empty result set.
C9_LookupResult ==
    /\ Len(LookupCalls) <= 1
    /\ JustLookedUp =>
          /\ Len(LookupCalls) = 1
          /\ ~ResponseIsOk(response) =>
                (raised = "none" /\ mesh_descriptor = << >>)
          /\ (ResponseIsOk(response) /\ response.body.wellformed) =>
                /\ raised = "none"
                /\ response.body.value = << >> => mesh_descriptor = << >>
                /\ response.body.value # << >> =>
                      mesh_descriptor = response.body.value[1]

C9_Witness ==
    /\ pc = "fetched"
    /\ ResponseIsOk(response)
    /\ Len(response.body.value) = 2
    /\ response.body.value[1] # response.body.value[2]
    /\ mesh_descriptor = response.body.value[1]

\* ------------------------------------------------------------------ C10
\* C10: only a positive count stops the traversal: the stop flag is set
\* exactly when the last result has a positive count; when every result is
\* zero the traversal ends only after every configured feed was queried
\* once; for two feeds with results (0, true) and (n, true), n > 0, both are
\* queried and the aggregate is (n, true).
C10_OnlyPositiveStops ==
    Aggregating =>
       /\ inner.stop <=> (activity # << >> /\ Last(activity).count > 0)
       /\ (/\ pc \in {"fold", "return"}
           /\ \A k \in 1..Len(activity) : activity[k].count = 0) =>
             queried = Identity(Len(CurrentFeeds))
       /\ (/\ pc = "return"
           /\ Len(CurrentFeeds) = 2
           /\ activity[1] = Zero(TRUE)) =>
             /\ queried = << 1, 2 >>
             /\ (activity[2].count > 0 /\ activity[2].certainty) =>
                   aggregate = activity[2]

C10_Witness ==
    /\ pc = "return"
    /\ Len(CurrentFeeds) = 2
    /\ queried = << 1, 2 >>
    /\ activity[1] = Zero(TRUE)
    /\ activity[2].count > 0
    /\ aggregate = activity[2]

\* ------------------------------------------------------------------ C11
\* C11: the second of two runs of check_disease_feeds on the same name and
\* feed sequence, with every feed answering as it did the first time,
\* queries the same positions in the same order, issues the same requests,
\* and ends with the same aggregate and the same report; it never fails
\* where the first run did not.
C11_Idempotent ==
    run = 2 =>
       /\ pc # "raised"
       /\ Len(queried) <= Len(first.queried)
       /\ \A k \in 1..Len(queried) : queried[k] = first.queried[k]
       /\ pc = "return" => RunRecord(2) = first

C11_Witness ==
    /\ run = 2
    /\ pc = "return"
    /\ Len(CurrentFeeds) = 2
    /\ first.queried = << 1 >>
    /\ first.aggregate.count > 0
    /\ inner.stop
    /\ aggregate = first.aggregate

\* ------------------------------------------------------------------ C12
\* C12: the stop flag is raised only by the step that produced a result,
\* that result has a positive count and is already in the activity list;
\* the next pull then ends the traversal as if exhausted (no error, nothing
\* more produced), and the aggregate of a stopped traversal is positive.
C12_StopAfterProduce ==
    /\ [](Aggregating =>
            /\ inner.stop =>
                  /\ activity # << >>
                  /\ Last(activity).count > 0
                  /\ Len(queried) = Len(activity)
            /\ (inner.stop /\ aggregate # None) => aggregate.count > 0)
    /\ [][(Aggregating /\ inner.stop /\ pc = "pull") =>
             /\ pc' = "fold"
             /\ raised' = "none"
             /\ activity' = activity
             /\ queried' = queried]_vars
    /\ [][(Aggregating /\ inner' # None /\ ~inner.stop /\ inner'.stop) =>
             /\ pc = "query"
             /\ Len(activity') = Len(activity) + 1
             /\ SubSeq(activity', 1, Len(activity)) = activity
             /\ Last(activity').count > 0]_vars

C12_Witness ==
    /\ pc = "fold"
    /\ inner.stop
    /\ inner.next <= Len(CurrentFeeds)
    /\ Last(activity).count > 0

\* ------------------------------------------------------------------ C13
\* The configured URLs among the feed positions queried so far, in order.
ConfiguredQueried ==
    SelectSeq(SubSeq(CurrentFeeds, 1, Len(queried)),
              LAMBDA u : u \in FeedQueryParams)

\* C13: within a unit the requests go out one per step in the order lookup,
\* tree-number query, feed queries in configured order; a feed is queried
\* only when the results of all earlier feeds are in, each position at most
\* once, and the queried positions are a prefix of the configured sequence.
C13_Sequential ==
    /\ [](/\ \A i \in 1..Len(calls) :
                /\ (calls[i].service = "lookup") <=> (i = 1)
                /\ (calls[i].service = "sparql") => (i = 2)
                /\ (calls[i].service = "feed") =>
                      (i >= 3 /\ calls[2].service = "sparql")
          /\ queried = Identity(Len(queried))
          /\ Len(queried) <= Len(CurrentFeeds)
          /\ Len(FeedCalls) = Len(ConfiguredQueried)
          /\ \A i \in 1..Len(FeedCalls) :
                FeedCalls[i].url = ConfiguredQueried[i]
          /\ Len(queried) <= Len(activity) + 1
          /\ pc = "query" => Len(activity) = Len(queried))
    /\ [][Len(calls') <= Len(calls) + 1]_vars
    /\ [][(queried' # queried /\ queried' # << >>) =>
             /\ pc = "query"
             /\ Len(activity) = Len(queried)
             /\ queried' = Append(queried, Len(queried) + 1)]_vars

C13_Witness ==
    /\ pc = "return"
    /\ Len(calls) = 4
    /\ calls[1].service = "lookup"
    /\ calls[2].service = "sparql"
    /\ calls[3].service = "feed"
    /\ calls[4].service = "feed"
    /\ queried = << 1, 2 >>

\* ------------------------------------------------------------------ C14
\* The state a work unit starts from: nothing of an earlier unit is left.
FreshUnit ==
    /\ mesh_descriptor = << >>
    /\ is_disease = "unset"
    /\ disease_name = ""
    /\ inner = None
    /\ feed_url = ""
    /\ activity = << >>
    /\ aggregate = None
    /\ response = None
    /\ calls = << >>
    /\ queried = << >>

\* C14: every work unit starts from the same state, whatever happened in
\* the units before it; its traversal starts at the first feed with the stop
\* flag cleared, and is cut short only by a positive result of its own.
C14_FreshTraversal ==
    /\ class_stop = FALSE
    /\ pc = "loop" => FreshUnit
    /\ (Aggregating /\ activity = << >>) =>
          (~inner.stop /\ inner.next <= 2 /\ Len(queried) <= 1)
    /\ (Aggregating /\ queried = << >> /\ pc = "pull") =>
          inner = [next |-> 1, stop |-> FALSE]
    /\ (Aggregating /\ pc \in {"fold", "return"}) =>
          \/ queried = Identity(Len(CurrentFeeds))
          \/ (activity # << >> /\ Last(activity).count > 0)

C14_Witness ==
    /\ unit = 2
    /\ UnitLines(1) = << >>
    /\ pc = "return"
    /\ Len(CurrentFeeds) = 2
    /\ queried = << 1, 2 >>
    /\ ~inner.stop
    /\ aggregate = Zero(TRUE)

\* ------------------------------------------------------------------ C15
\* The labels the lookup service can return as canonical.
CanonicalLabels == {d.label : d \in DescriptorEntries}

\* C15: the feed queries of a disease carry the label of the resolved
\* descriptor and not the supplied one; inactive and indeterminate lines
\* name the descriptor's label, not-recognized lines the supplied one.
C15_CanonicalLabel ==
    /\ \A i \in 1..Len(FeedCalls) :
          /\ FeedCalls[i].param = mesh_descriptor.label
          /\ FeedCalls[i].param # work_unit.disease_name
    /\ pc = "return" =>
          \A i \in 1..Len(UnitLines(unit)) :
             LET l == UnitLines(unit)[i]
             IN  /\ l.kind \in {"inactive", "indeterminate"} =>
                       l.name = mesh_descriptor.label
                 /\ l.kind = "notrecognized" =>
                       l.name = work_unit.disease_name
    /\ \A i \in 1..Len(log) :
          /\ log[i].kind \in {"inactive", "indeterminate"} =>
                (log[i].name \in CanonicalLabels /\ log[i].name \notin Labels)
          /\ log[i].kind = "notrecognized" =>
                (log[i].name \in Labels /\ log[i].name \notin CanonicalLabels)

C15_Witness ==
    /\ unit = 2
    /\ pc = "return"
    /\ Len(UnitLines(1)) = 1
    /\ UnitLines(1)[1].kind = "notrecognized"
    /\ UnitLines(1)[1].name = "Crohn's Disease"
    /\ FeedCalls # << >>
    /\ FeedCalls[1].param = "Crohn Disease"
    /\ Len(UnitLines(2)) = 1
    /\ UnitLines(2)[1].kind = "inactive"
    /\ UnitLines(2)[1].name = "Crohn Disease"

\* ------------------------------------------------------------------ C16
\* C16: a disease with an empty feed sequence is aggregated without error
\* to (0, true) and reported inactive.
C16_EmptyFeedsInactive ==
    (is_disease = "yes" /\ CurrentFeeds = << >>) =>
       /\ raised = "none"
       /\ pc = "return" =>
             /\ aggregate = Zero(TRUE)
             /\ UnitLines(unit) =
                   << Line(unit, "INFO", "inactive", disease_name) >>

\* ------------------------------------------------------------------ C17
\* Every result in the list is a successful query with zero items.
AllZeroCertain(results) ==
    \A i \in 1..Len(results) : results[i] = Zero(TRUE)

\* C17: an inactive line is written only by the report of a unit that was
\* classified as a disease, all of whose feeds are configured and were
\* queried, each query answering (0, true); the last response of such a
\* unit is a well-formed 200 answer without items.
C17_InactiveIsSound ==
    /\ [][(Len(log') > Len(log) /\ Last(log').kind = "inactive") =>
             /\ pc = "fold"
             /\ Last(log').unit = unit
             /\ is_disease = "yes"
             /\ CurrentFeeds # << >>
             /\ \A i \in 1..Len(CurrentFeeds) :
                   CurrentFeeds[i] \in FeedQueryParams
             /\ queried = Identity(Len(CurrentFeeds))
             /\ Len(FeedCalls) = Len(CurrentFeeds)
             /\ Len(activity) = Len(CurrentFeeds)
             /\ AllZeroCertain(activity)
             /\ FeedBodyParsed
             /\ response.body.value = 0]_vars
    /\ []((pc = "return" /\ Aggregating /\
           ~(AllZeroCertain(activity) /\ Len(activity) = Len(CurrentFeeds)))
          => \A i \in 1..Len(UnitLines(unit)) :
                UnitLines(unit)[i].kind # "inactive")

C17_Witness ==
    /\ pc = "return"
    /\ Len(CurrentFeeds) = 2
    /\ activity = << Zero(TRUE), Zero(TRUE) >>
    /\ Len(FeedCalls) = 2
    /\ UnitLines(unit) = << Line(unit, "INFO", "inactive", "Crohn Disease") >>

====
